---------------------------- MODULE Spec2Model ----------------------------
(***************************************************************************)
(* FlashbotsProtectButton (src/components/ProtectButton/index.tsx).        *)
(*                                                                         *)
(* Two parts of the component are modelled:                                *)
(*   - generateRpcUrl, the pure function building the endpoint URL from    *)
(*     the chain id and the button options;                                *)
(*   - connectToProtect, the async click handler: each click starts one    *)
(*     attempt that suspends at `await sdk.connect()` and at               *)
(*     `await provider.request(...)`.                                      *)
(*                                                                         *)
(* JavaScript strings that the code inspects character by character        *)
(* (object keys given to snakeCase, builder names given to toLowerCase)    *)
(* are sequences of one-character strings; strings the code only compares  *)
(* or concatenates are TLA+ strings.                                       *)
(***************************************************************************)
EXTENDS Naturals, Sequences, FiniteSets

VARIABLES
    sdkChainId,    \* useSDK().chainId: Some(chain id string), or None
    sdk,           \* useSDK().sdk is present
    provider,      \* useSDK().provider is present
    options,       \* the props: [hints, builders, fast]
    rpcUrl,        \* Some(the URL computed by the render), None before it
    attempts,      \* one record per call of connectToProtect: its position, its
                   \* addChainParams, the state of its two awaited promises
    calls,         \* the calls made on the wallet and on localStorage, in order
    console,       \* the console.error lines, in order
    localStorage,  \* the set of keys present in localStorage
    connected      \* the wallet is connected (sdk.connect() has resolved)

vars == <<sdkChainId, sdk, provider, options, rpcUrl, attempts, calls, console,
          localStorage, connected>>

---------------------------------------------------------------------------
(* Bounds of the model *)

\* longest `builders` array the props carry
MaxBuilders == 2
\* number of clicks on the connect button
MaxAttempts == 2

---------------------------------------------------------------------------
(* Strings *)

\* a value that may be undefined: None, or Some(v)
None == <<>>
Some(v) == <<v>>

UpperCase == <<"A","B","C","D","E","F","G","H","I","J","K","L","M",
               "N","O","P","Q","R","S","T","U","V","W","X","Y","Z">>
LowerCase == <<"a","b","c","d","e","f","g","h","i","j","k","l","m",
               "n","o","p","q","r","s","t","u","v","w","x","y","z">>
Digits == {"0","1","2","3","4","5","6","7","8","9"}

IsUpper(c) == \E i \in 1..Len(UpperCase) : UpperCase[i] = c
IsLower(c) == \E i \in 1..Len(LowerCase) : LowerCase[i] = c
IsDigit(c) == c \in Digits

\* one character of String.prototype.toLowerCase
LowerChar(c) ==
    IF IsUpper(c)
    THEN LowerCase[CHOOSE i \in 1..Len(UpperCase) : UpperCase[i] = c]
    ELSE c

\* the JavaScript string made of the characters cs
RECURSIVE Str(_)
Str(cs) == IF cs = <<>> THEN "" ELSE Head(cs) \o Str(Tail(cs))

\* builder.toLowerCase()
toLowerCaseId(builder) == Str(builder)
toLowerCase(builder) == Str([i \in 1..Len(builder) |-> LowerChar(builder[i])])

\* change-case splits a word between a lower-case letter or digit and an
\* upper-case letter, and between an upper-case letter and an upper-case
\* letter that starts a lower-case run
WordBreakBefore(cs, i) ==
    /\ i > 1
    /\ \/ (IsLower(cs[i-1]) \/ IsDigit(cs[i-1])) /\ IsUpper(cs[i])
       \/ /\ IsUpper(cs[i-1]) /\ IsUpper(cs[i])
          /\ i + 1 <= Len(cs) /\ IsLower(cs[i+1])

RECURSIVE SnakeFrom(_, _)
SnakeFrom(cs, i) ==
    IF i > Len(cs) THEN ""
    ELSE (IF WordBreakBefore(cs, i) THEN "_" ELSE "")
         \o LowerChar(cs[i]) \o SnakeFrom(cs, i + 1)

\* snakeCase(hintName): the words lower-cased and joined by "_"
snakeCaseFlat(hintName) == toLowerCase(hintName)
snakeCase(hintName) == SnakeFrom(hintName, 1)

---------------------------------------------------------------------------
(* generateRpcUrl *)

RPC_GOERLI_FLASHBOTS_NET == "https://rpc-goerli.flashbots.net"
RPC_SEPOLIA_FLASHBOTS_NET == "https://rpc-sepolia.flashbots.net"
RPC_FLASHBOTS_NET == "https://rpc.flashbots.net"

\* the switch on chainId
protectUrlSwapped(chainId) ==
    CASE chainId = "0x5" -> RPC_SEPOLIA_FLASHBOTS_NET
      [] chainId = "0xaa36a7" -> RPC_GOERLI_FLASHBOTS_NET
      [] OTHER -> RPC_FLASHBOTS_NET
protectUrl(chainId) ==
    CASE chainId = "0x5" -> RPC_GOERLI_FLASHBOTS_NET
      [] chainId = "0xaa36a7" -> RPC_SEPOLIA_FLASHBOTS_NET
      [] OTHER -> RPC_FLASHBOTS_NET

\* new URL(protectUrl): the origin, the path "/" and no query parameter
NewURL(url) == [origin |-> url, pathname |-> "/", searchParams |-> <<>>]

\* rpcUrl.searchParams.append(name, value)
SearchParamsAppend(url, name, value) ==
    [url EXCEPT !.searchParams = Append(@, <<name, value>>)]

\* Object.entries(hints).forEach(...): hints is the sequence of its
\* [key, value] pairs in the object's own property order
RECURSIVE AppendHints(_, _)
AppendHints(url, entries) ==
    IF entries = <<>> THEN url
    ELSE LET hintName == Head(entries)[1]
             hintEnabled == Head(entries)[2]
         IN  AppendHints(IF hintEnabled
                         THEN SearchParamsAppend(url, "hint", snakeCase(hintName))
                         ELSE url,
                         Tail(entries))

\* builders.forEach(...)
RECURSIVE AppendBuilders(_, _)
AppendBuilders(url, builders) ==
    IF builders = <<>> THEN url
    ELSE AppendBuilders(
             SearchParamsAppend(url, "builder", toLowerCase(Head(builders))),
             Tail(builders))

WithFastOrBuildersNoElse(url, opts) ==
    LET u == IF opts.fast THEN [url EXCEPT !.pathname = @ \o "fast"] ELSE url
    IN  IF opts.builders # None THEN AppendBuilders(u, opts.builders[1]) ELSE u
\* if (fast) { pathname += 'fast' } else if (builders) { ... }
WithFastOrBuilders(url, opts) ==
    IF opts.fast
    THEN [url EXCEPT !.pathname = @ \o "fast"]
    ELSE IF opts.builders # None
         THEN AppendBuilders(url, opts.builders[1])
         ELSE url

RECURSIVE Reverse(_)
Reverse(s) == IF s = <<>> THEN <<>> ELSE Append(Reverse(Tail(s)), Head(s))

WithHintsReversed(url, opts) ==
    IF opts.hints # None THEN AppendHints(url, Reverse(opts.hints[1])) ELSE url
\* if (hints) { Object.entries(hints).forEach(...) }
WithHints(url, opts) ==
    IF opts.hints # None THEN AppendHints(url, opts.hints[1]) ELSE url

generateRpcUrl(chainId, opts) ==
    WithFastOrBuilders(WithHints(NewURL(protectUrl(chainId)), opts), opts)

\* application/x-www-form-urlencoded serialisation of the query; every
\* character of the names and values of the model (letters, digits, "_")
\* is left as it is by the serialiser
RECURSIVE SerializeParams(_)
SerializeParams(params) ==
    IF params = <<>> THEN ""
    ELSE Head(params)[1] \o "=" \o Head(params)[2]
         \o (IF Tail(params) = <<>> THEN "" ELSE "&" \o SerializeParams(Tail(params)))

\* rpcUrl.toString()
URLtoString(url) ==
    url.origin \o url.pathname
    \o (IF url.searchParams = <<>> THEN "" ELSE "?" \o SerializeParams(url.searchParams))


---------------------------------------------------------------------------
(* The inputs of the component *)

\* the keys of HintPreferences, in the order the interface declares them
HintNames == <<
    <<"c","a","l","l","d","a","t","a">>,
    <<"c","o","n","t","r","a","c","t","A","d","d","r","e","s","s">>,
    <<"f","u","n","c","t","i","o","n","S","e","l","e","c","t","o","r">>,
    <<"l","o","g","s">>,
    <<"d","e","f","a","u","l","t","L","o","g","s">>,
    <<"h","a","s","h">> >>

NumHints == Len(HintNames)

\* the orders in which a caller writes the keys of the hints object: the
\* declaration order, its reverse and a shuffle
KeyOrders == { <<1,2,3,4,5,6>>, <<6,5,4,3,2,1>>, <<4,1,6,2,5,3>> }

\* every HintPreferences object: all six keys, written in one of KeyOrders
HintObjects ==
    { [i \in 1..NumHints |-> <<HintNames[ord[i]], flags[ord[i]]>>] :
        ord \in KeyOrders, flags \in [1..NumHints -> BOOLEAN] }

BuilderNames == { <<"F","l","a","s","h","b","o","t","s">>,
                  <<"b","e","a","v","e","r","b","u","i","l","d">>,
                  <<"x">> }

BuilderLists == UNION { [1..n -> BuilderNames] : n \in 0..MaxBuilders }

\* the three chain ids the code names, another chain and another spelling
ChainIds == {"0x1", "0x5", "0xaa36a7", "0x89", "0xAA36A7"}

AllOptions ==
    [hints : {None} \cup {Some(h) : h \in HintObjects},
     builders : {None} \cup {Some(b) : b \in BuilderLists},
     fast : BOOLEAN]

\* the options of the documented examples: calldata and logs shared, with a
\* builder list or in fast mode
ExampleHints ==
    [i \in 1..NumHints |-> <<HintNames[i], i \in {1, 4}>>]
ExampleOptions ==
    { [hints |-> Some(ExampleHints), fast |-> FALSE,
       builders |-> Some(<< <<"F","l","a","s","h","b","o","t","s">>,
                            <<"b","e","a","v","e","r","b","u","i","l","d">> >>)],
      [hints |-> Some(ExampleHints), fast |-> TRUE, builders |-> Some(<< <<"x">> >>)] }

---------------------------------------------------------------------------
(* FlashbotsProtectButton *)

\* const {chainId = '0x1', ...} = useSDK()
chainId == IF sdkChainId = None THEN "0x1" ELSE sdkChainId[1]

chainName(id) ==
    CASE id = "0x1" -> "Mainnet"
      [] id = "0x5" -> "Goerli"
      [] id = "0xaa36a7" -> "Sepolia"
      [] OTHER -> "Chain " \o id

\* the state before the first render, the options drawn from optionSet
InitWith(optionSet) ==
    /\ sdkChainId \in {None} \cup {Some(c) : c \in ChainIds}
    /\ sdk \in BOOLEAN
    /\ provider \in BOOLEAN
    /\ options \in optionSet
    /\ rpcUrl = None
    /\ attempts = <<>>
    /\ calls = <<>>
    /\ console = <<>>
    /\ localStorage \in SUBSET {"providerType", "theme"}
    /\ connected = FALSE

\* the body of the function component: rpcUrl = generateRpcUrl({chainId, options})
Render ==
    /\ rpcUrl = None
    /\ rpcUrl' = Some(generateRpcUrl(chainId, options))
    /\ UNCHANGED <<sdkChainId, sdk, provider, options, attempts, calls, console,
                   localStorage, connected>>

UrlInit == InitWith(AllOptions) /\ sdk /\ provider /\ localStorage = {}
UrlNext == Render
UrlSpec == UrlInit /\ [][UrlNext]_vars

---------------------------------------------------------------------------
(* connectToProtect *)

\* the attempts made so far are numbered in the order of the clicks
Attempts == 1..Len(attempts)

\* the position of an attempt: suspended at `await sdk.connect()`,
\* suspended at `await provider.request(...)`, returned, or ended by an
\* exception (the promise of connectToProtect is rejected)
AwaitConnect == "await sdk.connect"
AwaitRequest == "await provider.request"
Returned == "returned"
Threw == "threw"

addChainParams ==
    [chainId |-> chainId,
     chainName |-> "Flashbots Protect (" \o chainName(chainId) \o ")",
     iconUrls |-> <<"https://docs.flashbots.net/img/logo.png">>,
     nativeCurrency |-> [name |-> "Ethereum", symbol |-> "ETH", decimals |-> 18],
     rpcUrls |-> <<URLtoString(rpcUrl[1])>>]

Call(a, fn, args) == [attempt |-> a, fn |-> fn, args |-> args]
Log(a, message) == [attempt |-> a, message |-> message]

\* the precondition of connectToProtect
HandlesPresentProviderOnly == provider
HandlesPresent == provider /\ sdk

\* onClick={() => connectToProtect()}, up to the first await: with both
\* handles the parameters are built and sdk.connect() is called; without
\* them the error is logged and the function returns
ClickConnectWith(started) ==
    /\ rpcUrl # None
    /\ Len(attempts) < MaxAttempts
    /\ LET a == Len(attempts) + 1 IN
       IF started
       THEN /\ attempts' = Append(attempts,
                               [pc |-> AwaitConnect, params |-> Some(addChainParams),
                                connect |-> "pending", request |-> "none"])
            /\ calls' = Append(calls, Call(a, "sdk.connect", <<>>))
            /\ UNCHANGED console
       ELSE /\ attempts' = Append(attempts,
                               [pc |-> Returned, params |-> None,
                                connect |-> "none", request |-> "none"])
            /\ console' = Append(console, Log(a, "ethereum provider not found"))
            /\ UNCHANGED calls
    /\ UNCHANGED <<sdkChainId, sdk, provider, options, rpcUrl, localStorage, connected>>

\* a click handler that ignores the click while an attempt is suspended
ClickConnectGuarded ==
    /\ \A a \in Attempts : attempts[a].pc \in {Returned, Threw}
    /\ ClickConnectWith(HandlesPresent)
ClickConnect == ClickConnectWith(HandlesPresent)

\* the same two calls in the other order
AfterConnectRequestFirst(a) ==
    /\ localStorage' = localStorage \ {"providerType"}
    /\ calls' = calls \o
          << Call(a, "provider.request",
                  <<[method |-> "wallet_addEthereumChain",
                     params |-> <<attempts[a].params[1]>>]>>),
             Call(a, "localStorage.removeItem", <<"providerType">>) >>
    /\ attempts' = [attempts EXCEPT ![a].pc = AwaitRequest,
                                    ![a].connect = "resolved",
                                    ![a].request = "pending"]
\* what runs when sdk.connect() resolves, up to the second await:
\* localStorage.removeItem('providerType'), then provider.request(...)
AfterConnect(a) ==
    /\ localStorage' = localStorage \ {"providerType"}
    /\ calls' = calls \o
          << Call(a, "localStorage.removeItem", <<"providerType">>),
             Call(a, "provider.request",
                  <<[method |-> "wallet_addEthereumChain",
                     params |-> <<attempts[a].params[1]>>]>>) >>
    /\ attempts' = [attempts EXCEPT ![a].pc = AwaitRequest,
                                    ![a].connect = "resolved",
                                    ![a].request = "pending"]

\* sdk.connect() resolves: the wallet is connected and the attempt goes on
ConnectResolved(a) ==
    /\ attempts[a].pc = AwaitConnect
    /\ connected' = TRUE
    /\ AfterConnect(a)
    /\ UNCHANGED <<sdkChainId, sdk, provider, options, rpcUrl, console>>

\* sdk.connect() rejects (the user dismisses the prompt, the extension
\* fails): the await throws outside any try block, so the rest of
\* connectToProtect is skipped and its promise is rejected
ConnectRejected(a) ==
    /\ attempts[a].pc = AwaitConnect
    /\ attempts' = [attempts EXCEPT ![a].pc = Threw, ![a].connect = "rejected"]
    /\ UNCHANGED <<sdkChainId, sdk, provider, options, rpcUrl, calls, console,
                   localStorage, connected>>

\* provider.request(...) resolves: the try block ends, the function returns
RequestResolved(a) ==
    /\ attempts[a].pc = AwaitRequest
    /\ attempts' = [attempts EXCEPT ![a].pc = Returned, ![a].request = "resolved"]
    /\ UNCHANGED <<sdkChainId, sdk, provider, options, rpcUrl, calls, console,
                   localStorage, connected>>

\* without the try block the rejection would end connectToProtect
CatchAddErrorMissing(a) ==
    /\ attempts' = [attempts EXCEPT ![a].pc = Threw, ![a].request = "rejected"]
    /\ UNCHANGED <<calls, console, localStorage, connected>>
\* the catch block of connectToProtect
CatchAddError(a) ==
    /\ attempts' = [attempts EXCEPT ![a].pc = Returned, ![a].request = "rejected"]
    /\ console' = Append(console, Log(a, "addChain failed"))
    /\ UNCHANGED <<calls, localStorage, connected>>

\* provider.request(...) rejects: the catch block runs
RequestRejected(a) ==
    /\ attempts[a].pc = AwaitRequest
    /\ CatchAddError(a)
    /\ UNCHANGED <<sdkChainId, sdk, provider, options, rpcUrl>>

Init == InitWith(ExampleOptions)

Next ==
    \/ Render
    \/ ClickConnect
    \/ \E a \in Attempts : ConnectResolved(a)
    \/ \E a \in Attempts : ConnectRejected(a)
    \/ \E a \in Attempts : RequestResolved(a)
    \/ \E a \in Attempts : RequestRejected(a)

Spec == Init /\ [][Next]_vars

---------------------------------------------------------------------------
(* Properties of generateRpcUrl, checked under UrlSpec *)

Rendered == rpcUrl # None
Url == rpcUrl[1]

\* the values of the query parameters called name, in the order of the query
ParamValues(url, name) ==
    LET named == SelectSeq(url.searchParams, LAMBDA p : p[1] = name)
    IN  [i \in 1..Len(named) |-> named[i][2]]

Occurrences(seq, v) == Cardinality({i \in 1..Len(seq) : seq[i] = v})

\* the snake_case spellings of the six flags, in declaration order
SnakeNames == <<"calldata", "contract_address", "function_selector",
                "logs", "default_logs", "hash">>

\* the value the hints object gives to the i-th declared flag
FlagOf(hints, i) ==
    LET k == CHOOSE j \in 1..Len(hints) : hints[j][1] = HintNames[i]
    IN  hints[k][2]

\* the position, in declaration order, of the k-th key of the hints object
DeclaredIndex(hints, k) == CHOOSE i \in 1..NumHints : HintNames[i] = hints[k][1]

\* the expected query values of a sequence of flag positions
RECURSIVE SnakeOfEnabled(_, _)
SnakeOfEnabled(hints, positions) ==
    IF positions = <<>> THEN <<>>
    ELSE (IF FlagOf(hints, Head(positions)) THEN <<SnakeNames[Head(positions)]>> ELSE <<>>)
         \o SnakeOfEnabled(hints, Tail(positions))

\* C1: the origin of the URL is the host designated for the chain id:
\* 0x5 gives rpc-goerli.flashbots.net, 0xaa36a7 gives
\* rpc-sepolia.flashbots.net, 0x1 and every other chain id give
\* rpc.flashbots.net, whatever the hints, the builders and fast are.
HostSelectionExact ==
    Rendered =>
        Url.origin = "https://" \o
            (IF chainId = "0x5" THEN "rpc-goerli.flashbots.net"
             ELSE IF chainId = "0xaa36a7" THEN "rpc-sepolia.flashbots.net"
             ELSE IF chainId = "0x1" THEN "rpc.flashbots.net"
             ELSE "rpc.flashbots.net")

HostSelectionWitness ==
    /\ Rendered
    /\ sdkChainId = Some("0xaa36a7")
    /\ options.fast
    /\ options.hints # None
    /\ Url.origin = "https://rpc-sepolia.flashbots.net"

\* C2: for every hints object, the query holds exactly one hint parameter
\* for each flag that is true, its value the snake_case name of the flag,
\* and none for a flag that is false; the hint parameters are as many as
\* the true flags, so none at all when every flag is false.
OneHintPerTrueFlag ==
    (Rendered /\ options.hints # None) =>
        LET hints == options.hints[1]
            values == ParamValues(Url, "hint")
        IN  /\ \A i \in 1..NumHints :
                  Occurrences(values, SnakeNames[i]) = (IF FlagOf(hints, i) THEN 1 ELSE 0)
            /\ Len(values) = Cardinality({i \in 1..NumHints : FlagOf(hints, i)})

OneHintPerTrueFlagWitness ==
    /\ Rendered
    /\ options.hints # None
    /\ ParamValues(Url, "hint") = <<"default_logs", "contract_address">>
    /\ ~FlagOf(options.hints[1], 1)

\* C3: in fast mode the path is /fast and the query holds no builder
\* parameter, even with a builder list; otherwise the path is / and has
\* no fast segment.
FastExcludesBuilders ==
    Rendered =>
        /\ options.fast =>
              Url.pathname = "/fast" /\ ParamValues(Url, "builder") = <<>>
        /\ ~options.fast => Url.pathname = "/"

FastExcludesBuildersWitness ==
    /\ Rendered
    /\ options.fast
    /\ options.builders # None
    /\ options.builders[1] # <<>>
    /\ Url.pathname = "/fast"

\* the lower-case spelling of each builder name of the model
ExpectedLowerCase(builder) ==
    CASE builder = <<"F","l","a","s","h","b","o","t","s">> -> "flashbots"
      [] builder = <<"b","e","a","v","e","r","b","u","i","l","d">> -> "beaverbuild"
      [] builder = <<"x">> -> "x"

\* C4: without fast mode the builder parameters are the entries of the
\* builder list, lower-cased, in the same order and number (duplicates
\* kept); an empty or missing list gives no builder parameter.
BuildersLowercasedInOrder ==
    (Rendered /\ ~options.fast) =>
        LET values == ParamValues(Url, "builder")
        IN  IF options.builders = None THEN values = <<>>
            ELSE LET builders == options.builders[1]
                 IN  /\ Len(values) = Len(builders)
                     /\ \A i \in 1..Len(builders) :
                            values[i] = ExpectedLowerCase(builders[i])

BuildersLowercasedWitness ==
    /\ Rendered
    /\ ~options.fast
    /\ options.builders = Some(<< <<"F","l","a","s","h","b","o","t","s">>,
                                  <<"b","e","a","v","e","r","b","u","i","l","d">> >>)
    /\ ParamValues(Url, "builder") = <<"flashbots", "beaverbuild">>

\* every hint parameter comes before every builder parameter
HintsBeforeBuilders(url) ==
    \A i, j \in 1..Len(url.searchParams) :
        (url.searchParams[i][1] = "builder" /\ url.searchParams[j][1] = "hint") => j < i

\* C9 as stated: the hint parameters follow the declaration order of the
\* flags whatever the order of the keys of the hints object, and come
\* before the builder parameters.
HintOrderIsDeclarationOrder ==
    (Rendered /\ options.hints # None) =>
        /\ ParamValues(Url, "hint") =
              SnakeOfEnabled(options.hints[1], [i \in 1..NumHints |-> i])
        /\ HintsBeforeBuilders(Url)

\* C9: the hint parameters follow the order of the keys of the hints
\* object the caller passes (the declaration order when the caller writes
\* the keys in that order), and come before the builder parameters.
HintOrderIsKeyOrder ==
    (Rendered /\ options.hints # None) =>
        LET hints == options.hints[1]
        IN  /\ ParamValues(Url, "hint") =
                  SnakeOfEnabled(hints, [k \in 1..Len(hints) |-> DeclaredIndex(hints, k)])
            /\ HintsBeforeBuilders(Url)

HintOrderWitness ==
    /\ Rendered
    /\ options.hints # None
    /\ options.hints[1][1][1] = HintNames[6]
    /\ ParamValues(Url, "hint") = <<"hash", "logs", "calldata">>
    /\ ParamValues(Url, "builder") = <<"x", "flashbots">>

---------------------------------------------------------------------------
(* Properties of connectToProtect, checked under Spec *)

\* the names of the functions an attempt has called, in order
RECURSIVE CallsOf(_, _)
CallsOf(a, log) ==
    IF log = <<>> THEN <<>>
    ELSE (IF Head(log).attempt = a THEN <<Head(log).fn>> ELSE <<>>)
         \o CallsOf(a, Tail(log))

\* the console.error lines of an attempt, in order
RECURSIVE LinesOf(_, _)
LinesOf(a, log) ==
    IF log = <<>> THEN <<>>
    ELSE (IF Head(log).attempt = a THEN <<Head(log).message>> ELSE <<>>)
         \o LinesOf(a, Tail(log))

NumCalls(fn) == Cardinality({i \in 1..Len(calls) : calls[i].fn = fn})

IsPrefix(s, t) == Len(s) <= Len(t) /\ \A i \in 1..Len(s) : s[i] = t[i]

Finished(a) == attempts[a].pc \in {Returned, Threw}

\* the attempt found both handles, so it went past the precondition
PassedPrecondition(a) == attempts[a].params # None

\* C5: when the sdk handle or the provider handle is absent, every click
\* returns at once without an exception, logs exactly one error
\* ("ethereum provider not found") and makes no call: no sdk.connect, no
\* removeItem, no provider.request, then or later.
MissingHandleIsTerminal ==
    ~(sdk /\ provider) =>
        /\ calls = <<>>
        /\ ~connected
        /\ Len(console) = Len(attempts)
        /\ \A a \in Attempts :
              /\ attempts[a].pc = Returned
              /\ attempts[a].connect = "none" /\ attempts[a].request = "none"
              /\ LinesOf(a, console) = <<"ethereum provider not found">>

MissingHandleWitness ==
    /\ ~sdk /\ provider
    /\ "providerType" \in localStorage
    /\ Len(attempts) = MaxAttempts
    /\ Len(console) = MaxAttempts

\* C6: an attempt whose add-network request was rejected has returned
\* without an exception, has logged "addChain failed" once, has issued
\* that one request and no call after it, and has undone nothing: the
\* wallet is still connected and the providerType key is still absent.
AddFailureIsSwallowed ==
    \A a \in Attempts :
        attempts[a].request = "rejected" =>
            /\ attempts[a].pc = Returned
            /\ LinesOf(a, console) = <<"addChain failed">>
            /\ CallsOf(a, calls) =
                  <<"sdk.connect", "localStorage.removeItem", "provider.request">>
            /\ connected
            /\ "providerType" \notin localStorage

AddFailureWitness ==
    /\ Len(attempts) = 1
    /\ attempts[1].request = "rejected"
    /\ attempts[1].pc = Returned
    /\ console = <<Log(1, "addChain failed")>>

\* C7: the calls of one attempt are, in this order and each at most once,
\* sdk.connect, localStorage.removeItem and provider.request; the request
\* is issued only once the connect call has resolved and the providerType
\* key is gone, and always for wallet_addEthereumChain.
ConnectThenClearThenAdd ==
    \A a \in Attempts :
        /\ IsPrefix(CallsOf(a, calls),
                    <<"sdk.connect", "localStorage.removeItem", "provider.request">>)
        /\ PassedPrecondition(a) => CallsOf(a, calls) # <<>>
        /\ attempts[a].request # "none" =>
              /\ attempts[a].connect = "resolved"
              /\ "providerType" \notin localStorage
              /\ CallsOf(a, calls) =
                    <<"sdk.connect", "localStorage.removeItem", "provider.request">>
        /\ \A i \in 1..Len(calls) :
              calls[i].fn = "provider.request" =>
                  calls[i].args[1].method = "wallet_addEthereumChain"

ConnectThenClearThenAddWitness ==
    /\ Len(attempts) = 1
    /\ attempts[1].pc = Returned
    /\ attempts[1].request = "resolved"
    /\ Len(calls) = 3

\* C8 as stated: every attempt that went past the precondition removes the
\* providerType key, whether sdk.connect() resolves or the user dismisses
\* the prompt, and whatever the add-network request does.
EveryAttemptClearsProviderType ==
    \A a \in Attempts :
        (PassedPrecondition(a) /\ Finished(a)) =>
            /\ \E i \in 1..Len(calls) :
                  calls[i].attempt = a /\ calls[i].fn = "localStorage.removeItem"
            /\ "providerType" \notin localStorage

\* C10: clicks are not guarded: while an attempt is suspended a further
\* click is possible and starts its own sequence, so with both handles
\* every click has made its own sdk.connect call, there are at most as
\* many add-network requests as clicks, and each request belongs to an
\* attempt whose own connect call has resolved.
ClicksAreNotGuarded ==
    /\ (Rendered /\ Len(attempts) < MaxAttempts) => ENABLED ClickConnect
    /\ (sdk /\ provider) =>
          /\ NumCalls("sdk.connect") = Len(attempts)
          /\ \A a \in Attempts : Occurrences(CallsOf(a, calls), "sdk.connect") = 1
    /\ NumCalls("provider.request") <= Len(attempts)
    /\ \A i \in 1..Len(calls) :
          calls[i].fn = "provider.request" =>
              attempts[calls[i].attempt].connect = "resolved"

TwoAttemptsInFlight ==
    /\ Len(attempts) >= 2
    /\ attempts[1].pc = AwaitRequest
    /\ attempts[2].pc = AwaitRequest
    /\ NumCalls("sdk.connect") = 2
    /\ NumCalls("provider.request") = 2

=============================================================================
